---- MODULE Spec2Model ----
(***************************************************************************)
(* PixelMatch: the comparison orchestrator (compareImages) of              *)
(* server/services/comparisonService.ts over the in-memory storage         *)
(* (MemStorage, server/storage.ts) and the two vision providers            *)
(* (openaiService.ts, anthropicService.ts).                                *)
(*                                                                         *)
(* JavaScript runs one continuation at a time; concurrent requests         *)
(* interleave only at await points.  Every action below is one             *)
(* continuation of one compareImages run: the code from one await to the   *)
(* next, the synchronous effect of the awaited call included.              *)
(***************************************************************************)
EXTENDS Integers, Sequences, FiniteSets, TLC

\* ---------------------------------------------------------------- bounds
MaxComparisons == 2     \* cap on the comparison id counter
MaxDiscrepancies == 2   \* cap on the discrepancies added by hand

Runs == {1, 2}          \* the compareImages calls, in the order they are made
ProjectIds == {1}       \* the sample project, the only one stored after construction

\* ------------------------------------------------------------- constants
\* variant: the retry loop allows two more requests
maxAttempts_more == 3 + 2

maxAttempts == 3        \* openaiService.ts: const maxAttempts = 3
Missing == -1           \* a numeric field absent from a provider item
NoId == 0               \* existingComparisonId undefined (or any falsy number)
Null == 0               \* null timestamp / null userId
Undefined == "undefined"

\* values of process.env.AI_PROVIDER the process may be started with
EnvValues == {Undefined, "ANTHROPIC"}

\* every value the variables AI_PROVIDER and ANTHROPIC_API_STATUS may carry
\* when the process starts: unset, the documented names in several
\* spellings, an unrecognized name, the empty string
StartupProviders == {Undefined, "anthropic", "ANTHROPIC", "Anthropic",
                     "openai", "OpenAI", "gemini", ""}
StartupStatuses == {Undefined, "error", "ok"}

\* variant: the value is compared as it is written
toLowerCase_asWritten(s) == s

\* String.prototype.toLowerCase on the values above; undefined?. stays undefined
toLowerCase(s) ==
  CASE s = "ANTHROPIC" -> "anthropic"
    [] s = "Anthropic" -> "anthropic"
    [] s = "OpenAI" -> "openai"
    [] OTHER -> s

toUpperCase(s) ==
  CASE s = "openai" -> "OPENAI"
    [] s = "anthropic" -> "ANTHROPIC"
    [] OTHER -> s

\* { ...rec, ...upd }: object spread of a partial update over a record
Spread(rec, upd) ==
  [f \in DOMAIN rec |-> IF f \in DOMAIN upd THEN upd[f] ELSE rec[f]]

\* ------------------------------------------------------- provider choice
\* variant: the breaker flag is not consulted
getAIProvider_noBreaker(providerEnv, apiStatus) ==
  IF toLowerCase(providerEnv) = "anthropic" THEN "anthropic" ELSE "openai"

getAIProvider(providerEnv, apiStatus) ==
  IF toLowerCase(providerEnv) = "anthropic" /\ apiStatus # "error"
    THEN "anthropic"
    ELSE "openai"

\* line 185: process.env.ANTHROPIC_API_STATUS = 'error'
\* variant: the assignment is missing
flagAnthropicError_lost(apiStatus) == apiStatus

flagAnthropicError(apiStatus) == "error"

\* ------------------------------------------------- static fallback library
\* variant: a three-item list, the size of the earlier mock service's
generateTestDiscrepancies_three ==
  << [title |-> "Button color mismatch", type |-> "color", priority |-> "high",
      coordinates |-> [x |-> 150, y |-> 220, width |-> 120, height |-> 40, shape |-> "rectangle"]],
     [title |-> "Font size inconsistency", type |-> "typography", priority |-> "medium",
      coordinates |-> [x |-> 200, y |-> 180, width |-> 300, height |-> 24, shape |-> "rectangle"]],
     [title |-> "Spacing issues", type |-> "layout", priority |-> "low",
      coordinates |-> [x |-> 120, y |-> 310, width |-> 400, height |-> 100, shape |-> "rectangle"]] >>

generateTestDiscrepancies ==
  << [title |-> "Width measurement", type |-> "size", priority |-> "medium",
      coordinates |-> [x |-> 150, y |-> 220, width |-> 120, height |-> 40, shape |-> "rectangle"]],
     [title |-> "Color value difference", type |-> "color", priority |-> "medium",
      coordinates |-> [x |-> 200, y |-> 180, width |-> 300, height |-> 24, shape |-> "rectangle"]],
     [title |-> "Element spacing", type |-> "layout", priority |-> "low",
      coordinates |-> [x |-> 120, y |-> 310, width |-> 400, height |-> 100, shape |-> "rectangle"]],
     [title |-> "Typography properties", type |-> "typography", priority |-> "medium",
      coordinates |-> [x |-> 80, y |-> 130, width |-> 500, height |-> 30, shape |-> "rectangle"]],
     [title |-> "Component styling", type |-> "other", priority |-> "low",
      coordinates |-> [x |-> 350, y |-> 400, width |-> 280, height |-> 180, shape |-> "rectangle"]] >>

\* variant: the fallback library has no items
getFallbackDiscrepancies_empty == << >>

\* getFallbackDiscrepancies() returns the library of generateTestDiscrepancies
getFallbackDiscrepancies == generateTestDiscrepancies

\* ------------------------------------------- what a remote model may answer
RawButton ==
  [title |-> "Button color", type |-> "color", priority |-> "high", status |-> "",
   coordinates |-> [x |-> 10, y |-> 10, width |-> 50, height |-> 20, shape |-> "rectangle"]]

RawLogo ==
  [title |-> "Logo size", type |-> "size", priority |-> "low", status |-> "resolved",
   coordinates |-> [x |-> 5, y |-> Missing, width |-> Missing, height |-> Missing, shape |-> ""]]

\* JSON arrays the remote model may return (the empty array included)
Responses == { <<>>, <<RawButton>>, <<RawLogo, RawButton>> }

\* Number(v) || d
NumberOr(v, d) == IF v = Missing \/ v = 0 THEN d ELSE v

\* openaiService.ts: parsed.map(item => ({...item, status: "open", coordinates: {...}}))
openaiMapItems(parsed) ==
  [i \in 1..Len(parsed) |->
     [title |-> parsed[i].title, type |-> parsed[i].type,
      priority |-> parsed[i].priority, status |-> "open",
      coordinates |->
        [x |-> NumberOr(parsed[i].coordinates.x, 0),
         y |-> NumberOr(parsed[i].coordinates.y, 0),
         width |-> NumberOr(parsed[i].coordinates.width, 10),
         height |-> NumberOr(parsed[i].coordinates.height, 10),
         shape |-> IF parsed[i].coordinates.shape = "" THEN "rectangle"
                   ELSE parsed[i].coordinates.shape]]]

\* anthropicService.ts: parsed.map(item => ({...item, status: "open"}))
anthropicMapItems(parsed) ==
  [i \in 1..Len(parsed) |-> [parsed[i] EXCEPT !.status = "open"]]

\* comparisonService.ts: detectedDiscrepancies.map(d => ({title, ..., coordinates}))
selectFields(detected) ==
  [i \in 1..Len(detected) |->
     [title |-> detected[i].title, type |-> detected[i].type,
      priority |-> detected[i].priority, coordinates |-> detected[i].coordinates]]

\* items.filter(d => d.priority === p).length
CountPriority(items, p) == Cardinality({i \in 1..Len(items) : items[i].priority = p})

\* ------------------------------------------------------------ MemStorage
NoComparison ==
  [id |-> 0, projectId |-> 0, name |-> "", description |-> "",
   designImagePath |-> "", websiteImagePath |-> "", status |-> "",
   lastComparedAt |-> Null, usedFallback |-> FALSE]

\* variant: a missing row comes back as an empty object carrying the id
getComparison_stub(cs, id) ==
  IF id \in DOMAIN cs THEN cs[id] ELSE [NoComparison EXCEPT !.id = id]

\* MemStorage.getComparison: this.comparisons.get(id)
getComparison(cs, id) == IF id \in DOMAIN cs THEN cs[id] ELSE NoComparison

\* variant: a Comparison is stored with usedFallback already true
newComparison_flagged(id, insertComparison) ==
  [id |-> id,
   projectId |-> insertComparison.projectId,
   name |-> insertComparison.name,
   description |-> insertComparison.description,
   designImagePath |-> insertComparison.designImagePath,
   websiteImagePath |-> insertComparison.websiteImagePath,
   status |-> insertComparison.status,
   lastComparedAt |-> Null,
   usedFallback |-> TRUE]

\* MemStorage.createComparison: the record stored under the next id; no caller
\* passes usedFallback, so it is stored false
newComparison(id, insertComparison) ==
  [id |-> id,
   projectId |-> insertComparison.projectId,
   name |-> insertComparison.name,
   description |-> insertComparison.description,
   designImagePath |-> insertComparison.designImagePath,
   websiteImagePath |-> insertComparison.websiteImagePath,
   status |-> insertComparison.status,
   lastComparedAt |-> Null,
   usedFallback |-> FALSE]

\* variant: every update also marks the Comparison completed
updateComparison_completing(cs, id, comparisonUpdate) ==
  IF id \in DOMAIN cs
    THEN [cs EXCEPT ![id] = Spread(Spread(cs[id], comparisonUpdate),
                                   [status |-> "completed"])]
    ELSE cs

\* MemStorage.updateComparison: a NEW object {...comparison, ...update} replaces
\* the stored one; the object the caller already holds is not touched
updateComparison(cs, id, comparisonUpdate) ==
  IF id \in DOMAIN cs
    THEN [cs EXCEPT ![id] = Spread(cs[id], comparisonUpdate)]
    ELSE cs

\* variant: the record is stored with the schema's other initial status
newDiscrepancy_inProgress(id, insertDiscrepancy) ==
  [id |-> id,
   comparisonId |-> insertDiscrepancy.comparisonId,
   title |-> insertDiscrepancy.title,
   type |-> insertDiscrepancy.type,
   priority |-> insertDiscrepancy.priority,
   status |-> "in-progress",
   coordinates |-> insertDiscrepancy.coordinates]

\* MemStorage.createDiscrepancy: {...insert, id, createdAt, status: "open"}
newDiscrepancy(id, insertDiscrepancy) ==
  [id |-> id,
   comparisonId |-> insertDiscrepancy.comparisonId,
   title |-> insertDiscrepancy.title,
   type |-> insertDiscrepancy.type,
   priority |-> insertDiscrepancy.priority,
   status |-> "open",
   coordinates |-> insertDiscrepancy.coordinates]

\* variant: the id argument of the call is used instead of comparison.id
insertFor_argId(comparisonId, d) ==
  [comparisonId |-> NoId, title |-> d.title, type |-> d.type,
   priority |-> d.priority, status |-> "open", coordinates |-> d.coordinates]

\* the InsertDiscrepancy compareImages builds for one selected item
insertFor(comparisonId, d) ==
  [comparisonId |-> comparisonId, title |-> d.title, type |-> d.type,
   priority |-> d.priority, status |-> "open", coordinates |-> d.coordinates]

\* variant: every batch is numbered from 1
createdBatch_fromOne(nextId, comparisonId, selected) ==
  [i \in 1..Len(selected) |-> newDiscrepancy(i, insertFor(comparisonId, selected[i]))]

\* Promise.all(selected.map(d => storage.createDiscrepancy(...))): the creates
\* are issued in order within one continuation
createdBatch(nextId, comparisonId, selected) ==
  [i \in 1..Len(selected) |-> newDiscrepancy(nextId + i - 1, insertFor(comparisonId, selected[i]))]

VARIABLES
  AI_PROVIDER,            \* process.env.AI_PROVIDER
  ANTHROPIC_API_STATUS,   \* process.env.ANTHROPIC_API_STATUS
  comparisons,            \* MemStorage.comparisons: id -> Comparison
  comparisonCurrentId,
  discrepancies,          \* MemStorage.discrepancies: id -> Discrepancy
  discrepancyCurrentId,
  activities,             \* MemStorage.activities: id -> Activity
  activityCurrentId,
  clock,                  \* what new Date() returns next
  run,                    \* the compareImages calls: locals and position
  comments,               \* MemStorage.comments: id -> Comment
  commentCurrentId,
  projects,               \* MemStorage.projects: id -> Project
  projectCollaborators,   \* MemStorage.projectCollaborators: key -> ProjectCollaborator
  req                     \* the review requests: locals and position

vars == << AI_PROVIDER, ANTHROPIC_API_STATUS, comparisons, comparisonCurrentId,
           discrepancies, discrepancyCurrentId, activities, activityCurrentId,
           clock, run, comments, commentCurrentId, projects, projectCollaborators,
           req >>

reviewVars == << comments, commentCurrentId, projects, projectCollaborators, req >>

storageVars == << comparisons, comparisonCurrentId, discrepancies,
                  discrepancyCurrentId, activities, activityCurrentId >>

\* the users stored by initializeSampleData
UserIds == {1, 2, 3}

\* the review requests in flight, in the order they arrive
RequestIds == {1, 2, 3}

\* MemStorage key of a collaborator record: `${projectId}_${userId}`
Key(projectId, userId) == << projectId, userId >>

IdleRequest ==
  [pc |-> "idle", kind |-> "", discrepancyId |-> 0, projectId |-> 0, userId |-> 0,
   found |-> FALSE,        \* what the existence check of the handler read
   comparisonId |-> 0,     \* discrepancy.comparisonId as read by the handler
   discrepancyComments |-> {},  \* deleteDiscrepancy: ids getComments returned
   deleted |-> FALSE,      \* what deleteDiscrepancy / removeProjectCollaborator returned
   status |-> 0]           \* the HTTP status answered

\* MemStorage after its constructor: no comment, the sample project with the
\* two collaborators addProjectCollaborator has counted
initializeSampleData ==
  /\ comments = << >>
  /\ commentCurrentId = 1
  /\ projects = (1 :> [id |-> 1, collaborators |-> 2])
  /\ projectCollaborators =
       (Key(1, 1) :> [projectId |-> 1, userId |-> 1, role |-> "designer"]) @@
       (Key(1, 2) :> [projectId |-> 1, userId |-> 2, role |-> "developer"])
  /\ req = [s \in RequestIds |-> IdleRequest]

NoResult == [comparison |-> NoComparison, discrepancies |-> << >>]

NoActivityDescription == [wording |-> "", provider |-> "", total |-> 0, count |-> 0]

IdleRun ==
  [pc |-> "idle",
   existingComparisonId |-> NoId,
   projectId |-> 0,
   comparison |-> NoComparison,
   stampedAt |-> Null,
   aiProvider |-> "",
   activeProvider |-> "",
   providerAttempted |-> FALSE,
   attempts |-> 0,
   usingFallbackDiscrepancies |-> FALSE,
   selectedDiscrepancies |-> << >>,
   createdDiscrepancies |-> << >>,
   summary |-> "",
   activityDescription |-> NoActivityDescription,
   result |-> NoResult,
   error |-> "",
   \* observation of the run, not program state
   anthropicCalls |-> 0,       \* anthropicService.analyzeImageDifferences invocations
   openaiCalls |-> 0,          \* openaiService.analyzeImageDifferences invocations
   anthropicThrew |-> FALSE,
   openaiThrew |-> FALSE,
   zeroItems |-> FALSE,
   notFound |-> FALSE,         \* the id passed was not stored when the run was called
   summaryProvider |-> "",     \* the service whose generateComparisonSummary was called
   summaryFailed |-> FALSE,    \* the summary request to the provider failed
   rejected |-> {},            \* the storage writes of the run that rejected
   routeResult |-> NoResult]   \* the result the upload route answers with

Init ==
  /\ AI_PROVIDER \in EnvValues
  /\ ANTHROPIC_API_STATUS = Undefined
  /\ comparisons = << >>
  /\ comparisonCurrentId = 1
  /\ discrepancies = << >>
  /\ discrepancyCurrentId = 1
  /\ activities = << >>
  /\ activityCurrentId = 1
  /\ clock = 1
  /\ run = [r \in Runs |-> IdleRun]
  /\ initializeSampleData

\* run[r] with the fields of upd replaced
Set(r, upd) == [run EXCEPT ![r] = Spread(@, upd)]

\* ----------------------------------------------------- the two providers
AnthropicOutcomes == {"unreadable", "error", "invalid", "unparsable", "nonarray", "items"}
OpenAIOutcomes == {"error", "empty", "unparsable", "nonarray", "items"}
SummaryOutcomes == {"ok", "error"}

\* anthropicService.analyzeImageDifferences: readFileSync, one messages.create,
\* content check, JSON.parse of the bracketed substring, map; any failure is rethrown
anthropicAnalyze(outcome, resp) ==
  IF outcome \in {"unreadable", "error", "invalid", "unparsable"}
    THEN [threw |-> TRUE, items |-> << >>]
    ELSE [threw |-> FALSE,
          items |-> IF outcome = "nonarray" THEN << >> ELSE anthropicMapItems(resp)]

\* openaiService.analyzeImageDifferences, one pass of the retry loop: the request
\* fails, has no content or does not parse (caught, counted), or yields the items
openaiAttempt(outcome, resp) ==
  IF outcome \in {"error", "empty", "unparsable"}
    THEN [failed |-> TRUE, items |-> << >>]
    ELSE [failed |-> FALSE,
          items |-> IF outcome = "nonarray" THEN << >> ELSE openaiMapItems(resp)]

\* generateComparisonSummary of either service: never rejects, every failure
\* is turned into a fixed sentence
generateComparisonSummary(items, outcome) ==
  IF Len(items) = 0 THEN "No discrepancies found between the design and implementation."
  ELSE CASE outcome = "ok" -> "AI summary"
         [] outcome = "nocontent" -> "Summary could not be generated."
         [] OTHER -> "An error occurred while generating the comparison summary."

\* lines 246-264, catch (summaryError): the summary put together from the
\* counts of the selected items; "Technical analysis" on the fallback path
templatedSummary(usingFallback, selected) ==
  LET n == ToString(Len(selected))
      high == ToString(CountPriority(selected, "high"))
      medium == ToString(CountPriority(selected, "medium"))
      low == ToString(CountPriority(selected, "low"))
  IN IF usingFallback \/ Len(selected) = 0
       THEN "Technical analysis detected " \o n \o " potential UI differences (" \o
            high \o " high, " \o medium \o " medium, " \o low \o " low priority)."
       ELSE "Analysis detected " \o n \o " visual discrepancies, including " \o
            high \o " high priority, " \o medium \o " medium priority, and " \o
            low \o " low priority issues."

\* ------------------------------------------- compareImages, lines 164-220
\* variant: the provider error is not caught by the inner try
recoverAnalysis_rethrow(threw, detected) ==
  IF threw
    THEN [rethrown |-> TRUE, usingFallback |-> FALSE, detected |-> << >>]
  ELSE IF Len(detected) = 0
    THEN [rethrown |-> FALSE, usingFallback |-> TRUE, detected |-> getFallbackDiscrepancies]
    ELSE [rethrown |-> FALSE, usingFallback |-> FALSE, detected |-> detected]

\* variant: an empty provider result is kept as it is
recoverAnalysis_keepEmpty(threw, detected) ==
  IF threw
    THEN [rethrown |-> FALSE, usingFallback |-> TRUE, detected |-> getFallbackDiscrepancies]
    ELSE [rethrown |-> FALSE, usingFallback |-> FALSE, detected |-> detected]

\* the inner try/catch around the provider calls: a thrown provider error and
\* an empty result both end in the static fallback set; nothing is rethrown
recoverAnalysis(threw, detected) ==
  IF threw \/ Len(detected) = 0
    THEN [rethrown |-> FALSE, usingFallback |-> TRUE, detected |-> getFallbackDiscrepancies]
    ELSE [rethrown |-> FALSE, usingFallback |-> FALSE, detected |-> detected]

\* variant: the medium-priority count is stated in every wording
describeActivity_mediumCount(usingFallback, created, aiProvider) ==
  [wording |-> IF usingFallback THEN "fallback"
               ELSE IF Len(created) = 0 THEN "none" ELSE "detected",
   provider |-> IF usingFallback THEN "" ELSE toUpperCase(aiProvider),
   total |-> Len(created), count |-> CountPriority(created, "medium")]

\* lines 277-296: the Activity text, by its wording and the numbers it states
describeActivity(usingFallback, created, aiProvider) ==
  IF usingFallback
    THEN [wording |-> "fallback", provider |-> "",
          total |-> Len(created), count |-> CountPriority(created, "medium")]
  ELSE IF Len(created) = 0
    THEN [wording |-> "none", provider |-> toUpperCase(aiProvider), total |-> 0, count |-> 0]
  ELSE [wording |-> "detected", provider |-> toUpperCase(aiProvider),
        total |-> Len(created), count |-> CountPriority(created, "high")]

\* MemStorage.createActivity
newActivity(id, insertActivity) ==
  [id |-> id, projectId |-> insertActivity.projectId, type |-> insertActivity.type,
   description |-> insertActivity.description, userId |-> insertActivity.userId]

\* the storage writes of compareImages, by what they write
Writes == {"lastComparedAt", "discrepancy", "description", "usedFallback", "activity"}

\* variant: no rejected write leaves the function
propagates_none(write) == FALSE

\* variant: the description write is not wrapped in a try of its own
propagates_all(write) == TRUE

\* whether a rejected storage write leaves compareImages as a rejection: the
\* description write sits in the try of lines 238-275 whose catch only logs;
\* every other write is caught at line 311 only, which rethrows
propagates(write) == write # "description"

\* seq without its k-th element (seq itself when k = 0)
Without(seq, k) ==
  [i \in 1..(Len(seq) - (IF k = 0 THEN 0 ELSE 1)) |->
     IF k = 0 \/ i < k THEN seq[i] ELSE seq[i + 1]]

\* the end of the analysis stage (lines 194-235) for run r: fallback decision,
\* field selection and the creation of every Discrepancy, in one continuation.
\* k = 0: every insert is stored.  k > 0: the k-th insert rejects, the other
\* inserts of the batch are stored all the same, and Promise.all rejects.
Persist(r, threw, detected, obs, k) ==
  LET rec == recoverAnalysis(threw, detected)
      selected == selectFields(rec.detected)
      stored == createdBatch(discrepancyCurrentId, run[r].comparison.id,
                             Without(selected, k))
  IN IF rec.rethrown
       THEN /\ k = 0
            /\ run' = Set(r, obs @@ [pc |-> "threw", error |-> "Failed to analyze images"])
            /\ UNCHANGED << discrepancies, discrepancyCurrentId >>
       ELSE /\ k <= Len(selected)
            /\ run' = Set(r, obs @@
                 (IF k # 0 /\ propagates("discrepancy")
                    THEN [pc |-> "threw", error |-> "storage"]
                    ELSE [pc |-> "persisted", createdDiscrepancies |-> stored]) @@
                 [rejected |-> IF k # 0 THEN {"discrepancy"} ELSE {},
                  usingFallbackDiscrepancies |-> rec.usingFallback,
                  selectedDiscrepancies |-> selected,
                  zeroItems |-> (~threw /\ Len(detected) = 0)])
            /\ discrepancies' = discrepancies @@
                 [i \in discrepancyCurrentId..(discrepancyCurrentId + Len(stored) - 1) |->
                    stored[i - discrepancyCurrentId + 1]]
            /\ discrepancyCurrentId' = discrepancyCurrentId + Len(stored)

\* ---------------------------------------------------------------- actions
\* a route stores a Comparison before it calls compareImages
\* (routes: storage.createComparison with status processing or completed)
CreateComparison(status) ==
  /\ comparisonCurrentId <= MaxComparisons
  /\ comparisons' = comparisons @@ (comparisonCurrentId :>
       newComparison(comparisonCurrentId,
         [projectId |-> 1, name |-> "Report", description |-> "Automated comparison",
          designImagePath |-> "uploads/design.png", websiteImagePath |-> "uploads/website.png",
          status |-> status]))
  /\ comparisonCurrentId' = comparisonCurrentId + 1
  /\ UNCHANGED << AI_PROVIDER, ANTHROPIC_API_STATUS, discrepancies, discrepancyCurrentId,
                  activities, activityCurrentId, clock, run >>
  /\ UNCHANGED reviewVars

\* compareImages(designPath, websitePath, projectId, existingComparisonId) is
\* called: lines 125-145 up to the first await
Start(r, id, p) ==
  /\ run[r].pc = "idle"
  /\ \A q \in Runs : q < r => run[q].pc # "idle"
  /\ IF id # NoId
       THEN /\ run' = Set(r, [pc |-> "resolving", existingComparisonId |-> id,
                              projectId |-> p,
                              comparison |-> getComparison(comparisons, id),
                              notFound |-> id \notin DOMAIN comparisons])
            /\ UNCHANGED << comparisons, comparisonCurrentId >>
       ELSE /\ comparisonCurrentId <= MaxComparisons
            /\ LET c == newComparison(comparisonCurrentId,
                          [projectId |-> p, name |-> "Comparison <date>",
                           description |-> "Automated design vs website comparison",
                           designImagePath |-> "uploads/design.png",
                           websiteImagePath |-> "uploads/website.png",
                           status |-> "completed"])
               IN /\ comparisons' = comparisons @@ (comparisonCurrentId :> c)
                  /\ run' = Set(r, [pc |-> "resolving", existingComparisonId |-> id,
                                    projectId |-> p, comparison |-> c])
            /\ comparisonCurrentId' = comparisonCurrentId + 1
  /\ UNCHANGED << AI_PROVIDER, ANTHROPIC_API_STATUS, discrepancies, discrepancyCurrentId,
                  activities, activityCurrentId, clock >>
  /\ UNCHANGED reviewVars

\* lines 129-150: the not-found check, then the lastComparedAt stamp
Stamp(r, ok) ==
  /\ run[r].pc = "resolving"
  /\ IF run[r].comparison = NoComparison
       THEN /\ ok
            /\ run' = Set(r, [pc |-> "threw", error |-> "not found"])
            /\ UNCHANGED << comparisons, clock >>
       ELSE IF ~ok /\ propagates("lastComparedAt")
       THEN /\ run' = Set(r, [pc |-> "threw", error |-> "storage",
                              rejected |-> {"lastComparedAt"}])
            /\ UNCHANGED << comparisons, clock >>
       ELSE /\ comparisons' =
                 IF ok THEN updateComparison(comparisons, run[r].comparison.id,
                                             [lastComparedAt |-> clock])
                       ELSE comparisons
            /\ clock' = clock + 1
            /\ run' = Set(r, [pc |-> "stamped", stampedAt |-> clock,
                              rejected |-> IF ok THEN {} ELSE {"lastComparedAt"}])
  /\ UNCHANGED << AI_PROVIDER, ANTHROPIC_API_STATUS, comparisonCurrentId, discrepancies,
                  discrepancyCurrentId, activities, activityCurrentId >>
  /\ UNCHANGED reviewVars

\* lines 156-179: the provider is chosen and its analysis is called
ChooseProvider(r) ==
  /\ run[r].pc = "stamped"
  /\ LET p == getAIProvider(AI_PROVIDER, ANTHROPIC_API_STATUS)
     IN run' = Set(r, [aiProvider |-> p, activeProvider |-> p, providerAttempted |-> TRUE,
                       pc |-> IF p = "openai" THEN "openai_access" ELSE "anthropic_wait",
                       openaiCalls |-> run[r].openaiCalls + (IF p = "openai" THEN 1 ELSE 0),
                       anthropicCalls |-> run[r].anthropicCalls + (IF p = "openai" THEN 0 ELSE 1)])
  /\ UNCHANGED << AI_PROVIDER, ANTHROPIC_API_STATUS, storageVars, clock >>
  /\ UNCHANGED reviewVars

\* lines 177-191: Anthropic's analysis settles; on a throw the breaker flag is
\* set and OpenAI's analysis is called
AnthropicReturn(r, outcome, resp, k) ==
  /\ run[r].pc = "anthropic_wait"
  /\ outcome # "items" => resp = << >>
  /\ LET a == anthropicAnalyze(outcome, resp)
     IN IF a.threw
          THEN /\ k = 0
               /\ ANTHROPIC_API_STATUS' = flagAnthropicError(ANTHROPIC_API_STATUS)
               /\ run' = Set(r, [pc |-> "openai_access", activeProvider |-> "openai",
                                 anthropicThrew |-> TRUE,
                                 openaiCalls |-> run[r].openaiCalls + 1])
               /\ UNCHANGED << discrepancies, discrepancyCurrentId >>
          ELSE /\ Persist(r, FALSE, a.items, << >>, k)
               /\ UNCHANGED ANTHROPIC_API_STATUS
  /\ UNCHANGED << AI_PROVIDER, comparisons, comparisonCurrentId, activities,
                  activityCurrentId, clock >>
  /\ UNCHANGED reviewVars

\* openaiService lines 36-80: the access check settles; an unreadable image
\* is thrown at once, otherwise the first request is sent
OpenAIAccess(r, readable, k) ==
  /\ run[r].pc = "openai_access"
  /\ IF ~readable
       THEN Persist(r, TRUE, << >>, [openaiThrew |-> TRUE], k)
       ELSE /\ k = 0
            /\ run' = Set(r, [pc |-> "openai_wait", attempts |-> 0])
            /\ UNCHANGED << discrepancies, discrepancyCurrentId >>
  /\ UNCHANGED << AI_PROVIDER, ANTHROPIC_API_STATUS, comparisons, comparisonCurrentId,
                  activities, activityCurrentId, clock >>
  /\ UNCHANGED reviewVars

\* openaiService lines 78-185: one request settles
OpenAIAttempt(r, outcome, resp, k) ==
  /\ run[r].pc = "openai_wait"
  /\ outcome # "items" => resp = << >>
  /\ LET a == openaiAttempt(outcome, resp)
     IN IF a.failed
          THEN IF run[r].attempts + 1 < maxAttempts
                 THEN /\ k = 0
                      /\ run' = Set(r, [pc |-> "openai_backoff",
                                        attempts |-> run[r].attempts + 1])
                      /\ UNCHANGED << discrepancies, discrepancyCurrentId >>
                 ELSE Persist(r, TRUE, << >>, [attempts |-> 0, openaiThrew |-> TRUE], k)
          ELSE Persist(r, FALSE, a.items, [attempts |-> 0], k)
  /\ UNCHANGED << AI_PROVIDER, ANTHROPIC_API_STATUS, comparisons, comparisonCurrentId,
                  activities, activityCurrentId, clock >>
  /\ UNCHANGED reviewVars

\* variant: the count of failed requests starts again after each backoff
OpenAIRetry_resetting(r) ==
  /\ run[r].pc = "openai_backoff"
  /\ run' = Set(r, [pc |-> "openai_wait", attempts |-> 0])
  /\ UNCHANGED << AI_PROVIDER, ANTHROPIC_API_STATUS, storageVars, clock >>
  /\ UNCHANGED reviewVars

\* openaiService lines 176-180: the backoff timer fires, the next request is sent
OpenAIRetry(r) ==
  /\ run[r].pc = "openai_backoff"
  /\ run' = Set(r, [pc |-> "openai_wait"])
  /\ UNCHANGED << AI_PROVIDER, ANTHROPIC_API_STATUS, storageVars, clock >>
  /\ UNCHANGED reviewVars

\* lines 238-245: the summary is requested from the provider named by aiProvider
RequestSummary(r) ==
  /\ run[r].pc = "persisted"
  /\ run' = Set(r, [pc |-> "summary_wait",
                     summaryProvider |-> IF run[r].aiProvider = "openai"
                                           THEN "openai" ELSE "anthropic"])
  /\ UNCHANGED << AI_PROVIDER, ANTHROPIC_API_STATUS, storageVars, clock >>
  /\ UNCHANGED reviewVars

\* lines 266-271: the summary is written into the description
SummaryReturn(r, outcome, ok) ==
  /\ run[r].pc = "summary_wait"
  /\ Len(run[r].selectedDiscrepancies) = 0 => outcome = "ok"
  /\ LET s == generateComparisonSummary(run[r].selectedDiscrepancies, outcome)
     IN /\ s = "" => ok
        /\ IF ~ok /\ propagates("description")
             THEN run' = Set(r, [pc |-> "threw", error |-> "storage", summary |-> s,
                                 summaryFailed |-> (outcome # "ok"),
                                 rejected |-> run[r].rejected \cup {"description"}])
             ELSE run' = Set(r, [pc |-> "described", summary |-> s,
                                 summaryFailed |-> (outcome # "ok"),
                                 rejected |-> IF ok THEN run[r].rejected
                                              ELSE run[r].rejected \cup {"description"}])
        /\ comparisons' = IF s # "" /\ ok
                            THEN updateComparison(comparisons, run[r].comparison.id,
                                                  [description |-> s])
                            ELSE comparisons
  /\ UNCHANGED << AI_PROVIDER, ANTHROPIC_API_STATUS, comparisonCurrentId, discrepancies,
                  discrepancyCurrentId, activities, activityCurrentId, clock >>
  /\ UNCHANGED reviewVars

\* the Activity of lines 298-304
LogActivity(r, ok) ==
  LET d == describeActivity(run[r].usingFallbackDiscrepancies,
                            run[r].createdDiscrepancies, run[r].aiProvider)
  IN IF ~ok /\ propagates("activity")
       THEN /\ run' = Set(r, [pc |-> "threw", error |-> "storage",
                              activityDescription |-> d,
                              rejected |-> run[r].rejected \cup {"activity"}])
            /\ UNCHANGED << activities, activityCurrentId >>
       ELSE /\ activities' =
                 IF ok THEN activities @@ (activityCurrentId :>
                              newActivity(activityCurrentId,
                                [projectId |-> run[r].projectId, type |-> "comparison_run",
                                 description |-> d, userId |-> Null]))
                       ELSE activities
            /\ activityCurrentId' = IF ok THEN activityCurrentId + 1 ELSE activityCurrentId
            /\ run' = Set(r, [pc |-> "logged", activityDescription |-> d,
                              rejected |-> IF ok THEN run[r].rejected
                                           ELSE run[r].rejected \cup {"activity"}])

\* lines 277-304 after the description write: the usedFallback write when the
\* fallback set was used, otherwise the Activity at once
AfterSummary(r, ok) ==
  /\ run[r].pc = "described"
  /\ IF run[r].usingFallbackDiscrepancies
       THEN /\ IF ~ok /\ propagates("usedFallback")
                 THEN /\ run' = Set(r, [pc |-> "threw", error |-> "storage",
                                        rejected |-> run[r].rejected \cup {"usedFallback"}])
                      /\ UNCHANGED comparisons
                 ELSE /\ comparisons' =
                           IF ok THEN updateComparison(comparisons, run[r].comparison.id,
                                                       [usedFallback |-> TRUE])
                                 ELSE comparisons
                      /\ run' = Set(r, [pc |-> "flagged",
                                        rejected |-> IF ok THEN run[r].rejected
                                                     ELSE run[r].rejected \cup {"usedFallback"}])
            /\ UNCHANGED << activities, activityCurrentId >>
       ELSE /\ LogActivity(r, ok)
            /\ UNCHANGED comparisons
  /\ UNCHANGED << AI_PROVIDER, ANTHROPIC_API_STATUS, comparisonCurrentId, discrepancies,
                  discrepancyCurrentId, clock >>
  /\ UNCHANGED reviewVars

\* lines 286-304 on the fallback path, after the usedFallback write
ActivityAfterFlag(r, ok) ==
  /\ run[r].pc = "flagged"
  /\ LogActivity(r, ok)
  /\ UNCHANGED << AI_PROVIDER, ANTHROPIC_API_STATUS, comparisons, comparisonCurrentId,
                  discrepancies, discrepancyCurrentId, clock >>
  /\ UNCHANGED reviewVars

\* lines 306-310: the object held since step 1 and the created records are returned
Return(r) ==
  /\ run[r].pc = "logged"
  /\ run' = Set(r, [pc |-> "returned",
                    result |-> [comparison |-> run[r].comparison,
                                discrepancies |-> run[r].createdDiscrepancies]])
  /\ UNCHANGED << AI_PROVIDER, ANTHROPIC_API_STATUS, storageVars, clock >>
  /\ UNCHANGED reviewVars

\* MemStorage: a Map in memory, no write ever rejects
Next ==
  \/ \E s \in {"processing"} : CreateComparison(s)
  \/ \E r \in Runs, id \in 0..MaxComparisons, p \in ProjectIds : Start(r, id, p)
  \/ \E r \in Runs : Stamp(r, TRUE)
  \/ \E r \in Runs : ChooseProvider(r)
  \/ \E r \in Runs, o \in AnthropicOutcomes, resp \in Responses : AnthropicReturn(r, o, resp, 0)
  \/ \E r \in Runs, b \in BOOLEAN : OpenAIAccess(r, b, 0)
  \/ \E r \in Runs, o \in OpenAIOutcomes, resp \in Responses : OpenAIAttempt(r, o, resp, 0)
  \/ \E r \in Runs : OpenAIRetry(r)
  \/ \E r \in Runs : RequestSummary(r)
  \/ \E r \in Runs, o \in SummaryOutcomes : SummaryReturn(r, o, TRUE)
  \/ \E r \in Runs : AfterSummary(r, TRUE)
  \/ \E r \in Runs : ActivityAfterFlag(r, TRUE)
  \/ \E r \in Runs : Return(r)

Spec == Init /\ [][Next]_vars

\* ------------------------------------------------ provider configuration
\* the process as it may be configured at start, one compareImages call
EnvInit ==
  /\ AI_PROVIDER \in StartupProviders
  /\ ANTHROPIC_API_STATUS \in StartupStatuses
  /\ comparisons = << >>
  /\ comparisonCurrentId = 1
  /\ discrepancies = << >>
  /\ discrepancyCurrentId = 1
  /\ activities = << >>
  /\ activityCurrentId = 1
  /\ clock = 1
  /\ run = [r \in Runs |-> IdleRun]
  /\ initializeSampleData

\* the compareImages call made with or without a stored id (MemStorage)
EnvNext ==
  \/ \E s \in {"processing"} : CreateComparison(s)
  \/ \E id \in 0..MaxComparisons, p \in ProjectIds : Start(1, id, p)
  \/ Stamp(1, TRUE)
  \/ ChooseProvider(1)
  \/ \E o \in AnthropicOutcomes, resp \in Responses : AnthropicReturn(1, o, resp, 0)
  \/ \E b \in BOOLEAN : OpenAIAccess(1, b, 0)
  \/ \E o \in OpenAIOutcomes, resp \in Responses : OpenAIAttempt(1, o, resp, 0)
  \/ OpenAIRetry(1)
  \/ RequestSummary(1)
  \/ \E o \in SummaryOutcomes : SummaryReturn(1, o, TRUE)
  \/ AfterSummary(1, TRUE)
  \/ ActivityAfterFlag(1, TRUE)
  \/ Return(1)

EnvSpec == EnvInit /\ [][EnvNext]_vars

\* ------------------------------------- the upload-and-compare request
\* POST /api/projects/:projectId/compare, lines 480-501 of the routes: the
\* request that stored the Comparison (status processing) and called
\* compareImages with its id

\* the run is the compareImages call of an upload-and-compare request
FromUpload(r) == run[r].existingComparisonId # NoId /\ ~run[r].notFound

\* lines 482-485: compareImages returned, the status is set to completed; the
\* write is inside the try, its rejection is caught like an analysis error
RouteComplete(r, ok) ==
  /\ run[r].pc = "returned"
  /\ FromUpload(r)
  /\ IF ok
       THEN /\ comparisons' = updateComparison(comparisons, run[r].existingComparisonId,
                                               [status |-> "completed"])
            /\ run' = Set(r, [pc |-> "route_done", routeResult |-> run[r].result])
       ELSE /\ run' = Set(r, [pc |-> "route_catch"])
            /\ UNCHANGED comparisons
  /\ UNCHANGED << AI_PROVIDER, ANTHROPIC_API_STATUS, comparisonCurrentId, discrepancies,
                  discrepancyCurrentId, activities, activityCurrentId, clock >>
  /\ UNCHANGED reviewVars

\* variant: the catch only stores the failure text
failureUpdate_descriptionOnly ==
  [description |-> "Analysis failed or timed out. You can still add manual discrepancies."]

\* lines 491-494: what the catch writes into the Comparison
failureUpdate ==
  [status |-> "completed",
   description |-> "Analysis failed or timed out. You can still add manual discrepancies."]

\* lines 486-501: catch (analysisError): status completed and the failure text;
\* a rejection of this write reaches the outer catch (response 500)
RouteCatch(r, ok) ==
  /\ run[r].pc \in {"threw", "route_catch"}
  /\ FromUpload(r)
  /\ IF ok
       THEN /\ comparisons' = updateComparison(comparisons, run[r].existingComparisonId,
                                               failureUpdate)
            /\ run' = Set(r, [pc |-> "route_done",
                 routeResult |-> [comparison |-> getComparison(comparisons', run[r].existingComparisonId),
                             discrepancies |-> << >>]])
       ELSE /\ run' = Set(r, [pc |-> "route_500"])
            /\ UNCHANGED comparisons
  /\ UNCHANGED << AI_PROVIDER, ANTHROPIC_API_STATUS, comparisonCurrentId, discrepancies,
                  discrepancyCurrentId, activities, activityCurrentId, clock >>
  /\ UNCHANGED reviewVars

\* lines 503-512: the comparison_created Activity, then the 201 response
RouteRespond(r, ok) ==
  /\ run[r].pc = "route_done"
  /\ IF ok
       THEN /\ activities' = activities @@ (activityCurrentId :>
                 newActivity(activityCurrentId,
                   [projectId |-> run[r].projectId, type |-> "comparison_created",
                    description |-> [wording |-> "created", provider |-> "",
                                     total |-> Len(run[r].routeResult.discrepancies), count |-> 0],
                    userId |-> Null]))
            /\ activityCurrentId' = activityCurrentId + 1
            /\ run' = Set(r, [pc |-> "route_201"])
       ELSE /\ run' = Set(r, [pc |-> "route_500"])
            /\ UNCHANGED << activities, activityCurrentId >>
  /\ UNCHANGED << AI_PROVIDER, ANTHROPIC_API_STATUS, comparisons, comparisonCurrentId,
                  discrepancies, discrepancyCurrentId, clock >>
  /\ UNCHANGED reviewVars

\* one request at a time
RequestRuns == {1}

\* which insert of a batch rejects (0: none)
Rejections == 0..Len(getFallbackDiscrepancies)

\* DatabaseStorage: every write is a query that may reject
DbNext ==
  \/ \E s \in {"processing"} : CreateComparison(s)
  \/ \E r \in RequestRuns, id \in 0..MaxComparisons, p \in ProjectIds : Start(r, id, p)
  \/ \E r \in RequestRuns, ok \in BOOLEAN : Stamp(r, ok)
  \/ \E r \in RequestRuns : ChooseProvider(r)
  \/ \E r \in RequestRuns, o \in AnthropicOutcomes, resp \in Responses, k \in Rejections :
        AnthropicReturn(r, o, resp, k)
  \/ \E r \in RequestRuns, b \in BOOLEAN, k \in Rejections : OpenAIAccess(r, b, k)
  \/ \E r \in RequestRuns, o \in OpenAIOutcomes, resp \in Responses, k \in Rejections :
        OpenAIAttempt(r, o, resp, k)
  \/ \E r \in RequestRuns : OpenAIRetry(r)
  \/ \E r \in RequestRuns : RequestSummary(r)
  \/ \E r \in RequestRuns, o \in SummaryOutcomes, ok \in BOOLEAN : SummaryReturn(r, o, ok)
  \/ \E r \in RequestRuns, ok \in BOOLEAN : AfterSummary(r, ok)
  \/ \E r \in RequestRuns, ok \in BOOLEAN : ActivityAfterFlag(r, ok)
  \/ \E r \in RequestRuns : Return(r)
  \/ \E r \in RequestRuns, ok \in BOOLEAN : RouteComplete(r, ok)
  \/ \E r \in RequestRuns, ok \in BOOLEAN : RouteCatch(r, ok)
  \/ \E r \in RequestRuns, ok \in BOOLEAN : RouteRespond(r, ok)

DbSpec == Init /\ [][DbNext]_vars

\* the continuation of a started compareImages call: the promise it awaits
\* (a provider call, a storage query, the backoff timer) settles
Continue(r) ==
  \/ \E ok \in BOOLEAN : Stamp(r, ok)
  \/ ChooseProvider(r)
  \/ \E o \in AnthropicOutcomes, resp \in Responses, k \in Rejections :
        AnthropicReturn(r, o, resp, k)
  \/ \E b \in BOOLEAN, k \in Rejections : OpenAIAccess(r, b, k)
  \/ \E o \in OpenAIOutcomes, resp \in Responses, k \in Rejections :
        OpenAIAttempt(r, o, resp, k)
  \/ OpenAIRetry(r)
  \/ RequestSummary(r)
  \/ \E o \in SummaryOutcomes, ok \in BOOLEAN : SummaryReturn(r, o, ok)
  \/ \E ok \in BOOLEAN : AfterSummary(r, ok)
  \/ \E ok \in BOOLEAN : ActivityAfterFlag(r, ok)
  \/ Return(r)

\* every awaited call eventually returns or throws: a call that can continue
\* is eventually continued
DbLiveSpec == DbSpec /\ \A r \in RequestRuns : WF_vars(Continue(r))

\* ------------------------------------------------------------ properties
\* positions of a run after the analysis stage (line 235 onwards)
PostAnalysis == {"persisted", "summary_wait", "described", "flagged", "logged", "returned"}

\* type, priority and coordinates of the items of a batch, ids left out
Shape(items) ==
  [i \in 1..Len(items) |->
     [type |-> items[i].type, priority |-> items[i].priority,
      coordinates |-> items[i].coordinates]]

\* the static fallback library as comparisonService.ts lists it (lines 52-118)
LibraryShape ==
  << [type |-> "size", priority |-> "medium",
      coordinates |-> [x |-> 150, y |-> 220, width |-> 120, height |-> 40, shape |-> "rectangle"]],
     [type |-> "color", priority |-> "medium",
      coordinates |-> [x |-> 200, y |-> 180, width |-> 300, height |-> 24, shape |-> "rectangle"]],
     [type |-> "layout", priority |-> "low",
      coordinates |-> [x |-> 120, y |-> 310, width |-> 400, height |-> 100, shape |-> "rectangle"]],
     [type |-> "typography", priority |-> "medium",
      coordinates |-> [x |-> 80, y |-> 130, width |-> 500, height |-> 30, shape |-> "rectangle"]],
     [type |-> "other", priority |-> "low",
      coordinates |-> [x |-> 350, y |-> 400, width |-> 280, height |-> 180, shape |-> "rectangle"]] >>

\* both providers' analyses were called by run r and both threw
BothThrew(r) == run[r].anthropicThrew /\ run[r].openaiThrew

\* C1: a compareImages run whose comparison exists never ends in a throw,
\* whatever the providers did: the only run that throws is one whose id was not
\* stored, and a run whose last provider threw is on the fallback path.
C1_ProviderFailuresAbsorbed ==
  \A r \in Runs :
    /\ run[r].pc = "threw" => run[r].notFound
    /\ run[r].openaiThrew =>
         /\ run[r].pc \in PostAnalysis
         /\ run[r].usingFallbackDiscrepancies
         /\ Len(run[r].createdDiscrepancies) > 0

\* a run for an existing comparison returned after both providers threw
C1_Witness ==
  \E r \in Runs :
    /\ run[r].pc = "returned"
    /\ run[r].existingComparisonId # NoId
    /\ BothThrew(r)

\* C2: every step of a run called with an id that is not stored leaves the
\* storage and the breaker flag as they are, calls no provider, creates
\* nothing and can only end in the not-found throw.
C2_NotFoundIsImmediate ==
  [][\A r \in Runs :
       (run'[r].notFound /\ run'[r] # run[r]) =>
          /\ UNCHANGED storageVars
          /\ UNCHANGED ANTHROPIC_API_STATUS
          /\ run'[r].pc \in {"resolving", "threw"}
          /\ run'[r].anthropicCalls = 0 /\ run'[r].openaiCalls = 0
          /\ run'[r].createdDiscrepancies = << >>]_vars

\* a run called with an unknown id has thrown not-found
C2_Witness ==
  \E r \in Runs :
    /\ run[r].pc = "threw"
    /\ run[r].error = "not found"
    /\ run[r].existingComparisonId \notin DOMAIN comparisons

\* C3 (as claimed): when both providers threw, the Comparison in the returned
\* result has usedFallback = true.
C3_ReturnedUsedFallback ==
  \A r \in Runs :
    (run[r].pc = "returned" /\ BothThrew(r)) => run[r].result.comparison.usedFallback

\* C4: when the last analysis call of a run threw, the Discrepancies the run
\* created, stored and returned are the five items of the static fallback
\* library, item by item in type, priority and coordinates.
C4_FallbackBatchIsLibrary ==
  \A r \in Runs :
    (run[r].openaiThrew /\ run[r].pc \in PostAnalysis) =>
       /\ Len(run[r].createdDiscrepancies) = 5
       /\ Shape(run[r].createdDiscrepancies) = LibraryShape
       /\ \A i \in 1..Len(run[r].createdDiscrepancies) :
            LET d == run[r].createdDiscrepancies[i]
            IN d.id \in DOMAIN discrepancies /\ discrepancies[d.id] = d
       /\ run[r].pc = "returned" =>
            run[r].result.discrepancies = run[r].createdDiscrepancies

\* a run has returned after both providers threw
C4_Witness ==
  \E r \in Runs :
    /\ run[r].pc = "returned"
    /\ BothThrew(r)
    /\ Len(run[r].result.discrepancies) = 5

\* C5: a returned run whose provider answered with zero items and a returned
\* run in which both providers threw have the same batch (by type, priority
\* and coordinates), both stored Comparisons have usedFallback = true and both
\* Activity descriptions are the same fallback text.
C5_ZeroItemsLikeBothThrew ==
  \A r1, r2 \in Runs :
    (/\ run[r1].pc = "returned" /\ run[r1].zeroItems
     /\ run[r2].pc = "returned" /\ BothThrew(r2)) =>
       /\ Shape(run[r1].createdDiscrepancies) = Shape(run[r2].createdDiscrepancies)
       /\ comparisons[run[r1].comparison.id].usedFallback
       /\ comparisons[run[r2].comparison.id].usedFallback
       /\ run[r1].activityDescription = run[r2].activityDescription
       /\ run[r1].activityDescription.wording = "fallback"

\* one run returned after zero items, another after both providers threw
C5_Witness ==
  \E r1, r2 \in Runs :
    /\ run[r1].pc = "returned" /\ run[r1].zeroItems
    /\ run[r2].pc = "returned" /\ BothThrew(r2)

\* Anthropic's analyzeImageDifferences invocations of the process so far
AnthropicAnalyses == run[1].anthropicCalls + run[2].anthropicCalls

\* C6: once the breaker flag is 'error' it stays 'error', Anthropic's analysis
\* is never invoked again, and a run that chooses its provider invokes
\* OpenAI's analysis.
C6_BreakerIsPermanent ==
  [][ANTHROPIC_API_STATUS = "error" =>
       /\ ANTHROPIC_API_STATUS' = "error"
       /\ AnthropicAnalyses' = AnthropicAnalyses
       /\ \A r \in Runs :
            (run[r].pc = "stamped" /\ run'[r].pc # "stamped") =>
               /\ run'[r].aiProvider = "openai"
               /\ run'[r].openaiCalls = run[r].openaiCalls + 1]_vars

\* with AI_PROVIDER selecting Anthropic and the flag set, a run went to OpenAI
\* without calling Anthropic
C6_Witness ==
  /\ toLowerCase(AI_PROVIDER) = "anthropic"
  /\ ANTHROPIC_API_STATUS = "error"
  /\ \E r \in Runs :
       /\ run[r].pc = "returned"
       /\ run[r].anthropicCalls = 0
       /\ run[r].openaiCalls = 1

\* C7 (as claimed): a run whose first provider threw, the other provider not
\* being circuit-broken, has called the other provider's analysis exactly once
\* by the time the analysis stage is over, whichever provider came first.
C7_OtherProviderTriedOnce ==
  \A r \in Runs :
    run[r].pc \in PostAnalysis =>
       /\ (run[r].aiProvider = "anthropic" /\ run[r].anthropicThrew) =>
             run[r].openaiCalls = 1
       /\ (run[r].aiProvider = "openai" /\ run[r].openaiThrew
             /\ ANTHROPIC_API_STATUS # "error") =>
             run[r].anthropicCalls = 1

\* C8 (as claimed): after a provider's analysis threw in a run, whichever
\* provider it was, the process-wide provider state records a failure.
C8_EveryFailureRecorded ==
  \A r \in Runs :
    (run[r].anthropicThrew \/ run[r].openaiThrew) => ANTHROPIC_API_STATUS = "error"

\* C8 (amended): the breaker flag is 'error' exactly when Anthropic's analysis
\* has thrown in some run, and it is still 'error' after that run has ended;
\* a throw of OpenAI's analysis leaves the process-wide state as it is.
C8_AnthropicFailureRecorded ==
  (ANTHROPIC_API_STATUS = "error") <=> (\E r \in Runs : run[r].anthropicThrew)

\* a run in which Anthropic threw has ended and another run in which only
\* OpenAI threw has ended as well
C8_Witness ==
  \E r1, r2 \in Runs :
    /\ run[r1].pc = "returned" /\ run[r1].anthropicThrew
    /\ run[r2].pc = "returned" /\ run[r2].openaiThrew /\ ~run[r2].anthropicThrew

\* C9 (as claimed): the Comparison in the returned result carries the
\* lastComparedAt stamped during the run.
C9_ReturnedLastComparedAt ==
  \A r \in Runs :
    run[r].pc = "returned" =>
       /\ run[r].result.comparison.lastComparedAt # Null
       /\ run[r].result.comparison.lastComparedAt = run[r].stampedAt

\* C10: every Discrepancy a run has created carries the id of the run's
\* Comparison (the one in its result), that Comparison is stored, and every
\* stored Discrepancy refers to a stored Comparison.
C10_DiscrepancyBelongsToComparison ==
  /\ \A r \in Runs :
       \A i \in 1..Len(run[r].createdDiscrepancies) :
          /\ run[r].createdDiscrepancies[i].comparisonId = run[r].comparison.id
          /\ run[r].comparison.id \in DOMAIN comparisons
          /\ run[r].pc = "returned" =>
               run[r].result.discrepancies[i].comparisonId = run[r].result.comparison.id
  /\ \A d \in DOMAIN discrepancies :
       discrepancies[d].comparisonId \in DOMAIN comparisons

\* runs for a new and for a pre-existing comparison have returned their batches
C10_Witness ==
  \E r1, r2 \in Runs :
    /\ run[r1].pc = "returned" /\ run[r1].existingComparisonId = NoId
    /\ run[r2].pc = "returned" /\ run[r2].existingComparisonId # NoId
    /\ Len(run[r1].result.discrepancies) > 0
    /\ Len(run[r2].result.discrepancies) > 0

\* how the compareImages call of run r settled
Rejected(r) == run[r].error # ""
Returned(r) == run[r].result # NoResult

\* C11: a run in which the write of a discrepancy, of the usedFallback flag or
\* of the Activity rejected has rejected with the storage error and has
\* returned no result.
C11_PersistenceErrorPropagates ==
  \A r \in Runs :
    (run[r].rejected \cap {"discrepancy", "usedFallback", "activity"}) # {} =>
       /\ Rejected(r)
       /\ run[r].error = "storage"
       /\ ~Returned(r)

\* a run on the fallback path whose Activity write rejected, after its
\* discrepancies and its usedFallback flag were stored, has rejected
C11_Witness ==
  \E r \in Runs :
    /\ "activity" \in run[r].rejected
    /\ run[r].usingFallbackDiscrepancies
    /\ comparisons[run[r].comparison.id].usedFallback
    /\ Rejected(r)

\* the comparison_run Activities stored with the description run r built
RunActivities(r) ==
  {a \in DOMAIN activities :
     /\ activities[a].type = "comparison_run"
     /\ activities[a].projectId = run[r].projectId
     /\ activities[a].description = run[r].activityDescription}

\* C12: a run whose summary request failed, or whose description write
\* rejected, does not reject because of it: if it rejected all the same, a
\* later write (usedFallback, Activity) rejected; if it returned, its Activity
\* is stored and the result carries the comparison and the created batch.
C12_SummaryFailureIsNotFatal ==
  \A r \in Runs :
    (run[r].summaryFailed \/ "description" \in run[r].rejected) =>
       /\ Rejected(r) => (run[r].rejected \cap {"usedFallback", "activity"}) # {}
       /\ Returned(r) =>
            /\ RunActivities(r) # {}
            /\ run[r].result.comparison.id = run[r].comparison.id
            /\ run[r].result.discrepancies = run[r].createdDiscrepancies

\* a run returned although its summary request failed and its description
\* write rejected
C12_Witness ==
  \E r \in Runs :
    /\ run[r].summaryFailed
    /\ "description" \in run[r].rejected
    /\ Returned(r)
    /\ RunActivities(r) # {}

\* positions of a run after the description write (line 271 onwards)
PostSummary == {"described", "flagged", "logged", "returned"}

\* C13 (as claimed): after a failed summary request the description stored on
\* the run's Comparison is the templated summary stating the counts of high,
\* medium and low priority items of the run.
C13_TemplatedSummaryOnFailure ==
  \A r \in Runs :
    (run[r].summaryFailed /\ run[r].pc \in PostSummary) =>
       comparisons[run[r].comparison.id].description =
         templatedSummary(run[r].usingFallbackDiscrepancies, run[r].selectedDiscrepancies)

\* ids of the Discrepancies run r created
BatchIds(r) ==
  {run[r].createdDiscrepancies[i].id : i \in 1..Len(run[r].createdDiscrepancies)}

\* C14: there are as many comparison_run Activities as runs that have written
\* theirs; a returned run has one for its projectId, whose description has the
\* fallback wording exactly when the run's batch is the static fallback set,
\* and otherwise states the number of stored Discrepancies of the batch and
\* the number of them with priority high.
C14_OneActivityPerRun ==
  /\ Cardinality({a \in DOMAIN activities : activities[a].type = "comparison_run"})
       = Cardinality({r \in Runs : run[r].pc \in {"logged", "returned"}})
  /\ \A r \in Runs :
       run[r].pc = "returned" =>
          /\ RunActivities(r) # {}
          /\ \A a \in RunActivities(r) :
               LET d == activities[a].description
               IN /\ (d.wording = "fallback") <=>
                       (Shape(run[r].createdDiscrepancies) = LibraryShape)
                  /\ d.wording # "fallback" =>
                       /\ d.wording = "detected"
                       /\ BatchIds(r) \subseteq DOMAIN discrepancies
                       /\ d.total = Cardinality(BatchIds(r))
                       /\ d.count = Cardinality({i \in BatchIds(r) :
                                                   discrepancies[i].priority = "high"})

\* a run that persisted one high-priority provider item has returned; its
\* Activity states total 1 and high-priority 1
C14_Witness ==
  \E r \in Runs :
    /\ run[r].pc = "returned"
    /\ Len(run[r].createdDiscrepancies) = 1
    /\ run[r].createdDiscrepancies[1].priority = "high"
    /\ \E a \in RunActivities(r) :
         /\ activities[a].description.wording = "detected"
         /\ activities[a].description.total = 1
         /\ activities[a].description.count = 1

\* C15: every stored Discrepancy, and every Discrepancy a run holds as
\* created, has status open, whatever status the provider item carried.
C15_PersistedStatusIsOpen ==
  /\ \A d \in DOMAIN discrepancies : discrepancies[d].status = "open"
  /\ \A r \in Runs :
       \A i \in 1..Len(run[r].createdDiscrepancies) :
          run[r].createdDiscrepancies[i].status = "open"

\* the provider item that carried status resolved is stored, by a run whose
\* provider was Anthropic and by a run whose provider was OpenAI
C15_Witness ==
  /\ RawLogo.status = "resolved"
  /\ \E r1, r2 \in Runs :
       /\ run[r1].activeProvider = "anthropic" /\ run[r2].activeProvider = "openai"
       /\ \A r \in {r1, r2} :
            /\ ~run[r].usingFallbackDiscrepancies
            /\ \E i \in BatchIds(r) :
                 /\ i \in DOMAIN discrepancies
                 /\ discrepancies[i].title = RawLogo.title
                 /\ discrepancies[i].status = "open"

\* C16 (as claimed): a stored Discrepancy made from the provider item that
\* lacks y, width, height and shape has y = 0, width = 10, height = 10 and
\* shape rectangle, whichever provider produced it; no stored Discrepancy
\* lacks a coordinate field.
C16_MissingCoordinatesDefaulted ==
  \A d \in DOMAIN discrepancies :
    LET c == discrepancies[d].coordinates
    IN /\ Missing \notin {c.x, c.y, c.width, c.height}
       /\ c.shape # ""
       /\ discrepancies[d].title = RawLogo.title =>
            /\ c.y = 0 /\ c.width = 10 /\ c.height = 10
            /\ c.shape = "rectangle"

\* ids of the stored Discrepancies that refer to comparison id
StoredFor(id) == {d \in DOMAIN discrepancies : discrepancies[d].comparisonId = id}

\* C17: the batch a run created stays stored as created; when two runs were
\* called with the same existingComparisonId and both have persisted, the two
\* batches have pairwise distinct ids, every item refers to that comparison,
\* and the Discrepancies stored for it are exactly the items of both batches.
C17_BatchesAreIndependent ==
  /\ \A r \in Runs :
       run[r].pc \in PostAnalysis =>
          /\ Cardinality(BatchIds(r)) = Len(run[r].createdDiscrepancies)
          /\ \A i \in 1..Len(run[r].createdDiscrepancies) :
               LET d == run[r].createdDiscrepancies[i]
               IN /\ d.id \in DOMAIN discrepancies
                  /\ discrepancies[d.id] = d
                  /\ d.comparisonId = run[r].comparison.id
  /\ \A r1, r2 \in Runs :
       (/\ r1 # r2
        /\ run[r1].pc \in PostAnalysis /\ run[r2].pc \in PostAnalysis
        /\ run[r1].existingComparisonId # NoId
        /\ run[r1].existingComparisonId = run[r2].existingComparisonId) =>
          /\ BatchIds(r1) \cap BatchIds(r2) = {}
          /\ StoredFor(run[r1].existingComparisonId) = BatchIds(r1) \cup BatchIds(r2)

\* two runs with the same existingComparisonId have returned the same five
\* fallback items each; ten Discrepancies are stored for the comparison
C17_Witness ==
  \E r1, r2 \in Runs :
    /\ r1 # r2
    /\ run[r1].pc = "returned" /\ run[r2].pc = "returned"
    /\ run[r1].existingComparisonId # NoId
    /\ run[r1].existingComparisonId = run[r2].existingComparisonId
    /\ Shape(run[r1].createdDiscrepancies) = Shape(run[r2].createdDiscrepancies)
    /\ Cardinality(StoredFor(run[r1].existingComparisonId)) = 10

\* positions of an upload-and-compare request after its analysis step
\* (compareImages and the status write that follows it)
AfterAnalysisStep == {"route_done", "route_201", "route_500"}

C19_OnlyOwnStampSummaryFlag ==
  [][\A id \in DOMAIN comparisons :
       /\ id \in DOMAIN comparisons'
       /\ comparisons'[id].id = comparisons[id].id
       /\ comparisons'[id].projectId = comparisons[id].projectId
       /\ comparisons'[id].name = comparisons[id].name
       /\ comparisons'[id].designImagePath = comparisons[id].designImagePath
       /\ comparisons'[id].websiteImagePath = comparisons[id].websiteImagePath
       /\ comparisons'[id].status = comparisons[id].status
       /\ comparisons'[id] # comparisons[id] =>
            \E r \in Runs : run[r].comparison.id = id /\ run'[r] # run[r]]_vars

\* a run called with the id of a Comparison stored as processing has returned:
\* stamp, summary and fallback flag are written, the status is untouched,
\* and another Comparison is stored beside it
C19_Witness ==
  \E r \in Runs :
    /\ run[r].pc = "returned"
    /\ run[r].existingComparisonId # NoId
    /\ LET c == comparisons[run[r].existingComparisonId]
       IN /\ c.lastComparedAt # Null
          /\ c.description = run[r].summary
          /\ c.usedFallback
          /\ c.status = "processing"
    /\ Cardinality(DOMAIN comparisons) > 1

\* C20 (as claimed): the x, y, width and height a stored Discrepancy has are
\* inside the 0 to 100 relative coordinate space, for provider items and for
\* the items of the static fallback library alike.
C20_CoordinatesWithinRelativeSpace ==
  \A d \in DOMAIN discrepancies :
    LET c == discrepancies[d].coordinates
    IN \A v \in {c.x, c.y, c.width, c.height} : v # Missing => v \in 0..100

\* the spellings of the name that select Anthropic
AnthropicSpellings == {"anthropic", "ANTHROPIC", "Anthropic"}

\* C21: the step in which a run chooses its provider chooses Anthropic exactly
\* when AI_PROVIDER is a spelling of anthropic and ANTHROPIC_API_STATUS is not
\* 'error', and OpenAI in every other case (unset, empty or unrecognized
\* value included); the analysis of the chosen provider is the one called.
C21_ProviderChoice ==
  [][\A r \in Runs :
       (run[r].pc = "stamped" /\ run'[r].pc # "stamped") =>
          LET anthropic == AI_PROVIDER \in AnthropicSpellings
                             /\ ANTHROPIC_API_STATUS # "error"
          IN /\ run'[r].aiProvider = (IF anthropic THEN "anthropic" ELSE "openai")
             /\ run'[r].anthropicCalls = (IF anthropic THEN 1 ELSE 0)
             /\ run'[r].openaiCalls = (IF anthropic THEN 0 ELSE 1)]_vars

\* with AI_PROVIDER written in mixed case and the status variable set to a
\* value other than 'error', a run has chosen Anthropic
C21_Witness ==
  /\ AI_PROVIDER = "Anthropic"
  /\ ANTHROPIC_API_STATUS = "ok"
  /\ \E r \in Runs : run[r].aiProvider = "anthropic" /\ run[r].anthropicCalls = 1

\* positions of a run after its summary was requested
SummaryRequested == {"summary_wait", "described", "flagged", "logged", "returned"}

\* C22 (as claimed): two runs that both called Anthropic's failing analysis
\* (the breaker was not yet set when either chose its provider) both return,
\* each with discrepancies of its own comparison only, the breaker flag is
\* 'error', and apart from the second analysis call they did what two runs
\* one after the other do: the later run sends no request to Anthropic, its
\* summary is requested from OpenAI and its Activity names OPENAI.
C22_RaceCostsOneCall ==
  \A r1, r2 \in Runs :
    (/\ r1 # r2
     /\ run[r1].pc = "returned" /\ run[r2].pc = "returned"
     /\ run[r1].anthropicThrew /\ run[r2].anthropicThrew) =>
        /\ ANTHROPIC_API_STATUS = "error"
        /\ \A r \in {r1, r2} : \A i \in 1..Len(run[r].result.discrepancies) :
             run[r].result.discrepancies[i].comparisonId = run[r].comparison.id
        /\ AnthropicAnalyses = 2
        /\ \E r \in {r1, r2} :
             /\ run[r].summaryProvider = "openai"
             /\ ~run[r].usingFallbackDiscrepancies =>
                  run[r].activityDescription.provider = "OPENAI"

\* C24: a run whose Anthropic analysis threw (it failed over to OpenAI)
\* requests its summary from OpenAI, the provider active when analysis ended,
\* and sends no further request to Anthropic.
C24_SummaryFromActiveProvider ==
  \A r \in Runs :
    (run[r].pc \in SummaryRequested /\ run[r].anthropicThrew) =>
       /\ run[r].activeProvider = "openai"
       /\ run[r].summaryProvider = run[r].activeProvider

\* positions of a run after its usedFallback write
FlagWritten == {"flagged", "logged", "returned"}

\* the runs on the Comparison of run r that used the static fallback set and
\* have written the flag
FlaggedBy(r) ==
  {q \in Runs : /\ run[q].pc \in FlagWritten
                /\ run[q].usingFallbackDiscrepancies
                /\ run[q].comparison.id = run[r].comparison.id}

\* C25: for a run that has returned, the stored Comparison's usedFallback is
\* true exactly when a run on that Comparison (this one or another) used the
\* static fallback set and wrote the flag; a step never turns a stored true
\* flag into false.
C25_UsedFallbackSticky ==
  [][/\ \A r \in Runs :
          run'[r].pc = "returned" =>
             (comparisons'[run'[r].comparison.id].usedFallback <=> FlaggedBy(r)' # {})
     /\ \A id \in DOMAIN comparisons :
          comparisons[id].usedFallback => comparisons'[id].usedFallback]_vars

\* a run used the fallback set on a Comparison, a later run on the same
\* Comparison returned AI-derived discrepancies, and the flag is still true
C25_Witness ==
  \E r1, r2 \in Runs :
    /\ r1 # r2
    /\ run[r1].pc = "returned" /\ run[r2].pc = "returned"
    /\ run[r1].comparison.id = run[r2].comparison.id
    /\ run[r1].usingFallbackDiscrepancies
    /\ ~run[r2].usingFallbackDiscrepancies
    /\ run[r1].result.comparison.lastComparedAt < run[r2].result.comparison.lastComparedAt
    /\ comparisons[run[r2].comparison.id].usedFallback

\* C27: a run that has returned has created at least one Discrepancy, each
\* stored under its id for the run's Comparison; no Activity, stored or
\* composed by a run, has the wording for zero discrepancies.
C27_NeverZeroDiscrepancies ==
  /\ \A r \in Runs :
       Returned(r) =>
          /\ Len(run[r].createdDiscrepancies) >= 1
          /\ Len(run[r].result.discrepancies) >= 1
          /\ BatchIds(r) # {}
          /\ BatchIds(r) \subseteq StoredFor(run[r].comparison.id)
  /\ \A a \in DOMAIN activities : activities[a].description.wording # "none"
  /\ \A r \in Runs : run[r].activityDescription.wording # "none"

\* a run whose provider answered with an empty list has returned the five
\* items of the fallback library and written the fallback wording
C27_Witness ==
  \E r \in Runs :
    /\ Returned(r)
    /\ run[r].zeroItems
    /\ Len(run[r].createdDiscrepancies) = 5
    /\ \E a \in RunActivities(r) : activities[a].description.wording = "fallback"

\* positions of a run inside OpenAI's retry loop
InRetryLoop == {"openai_wait", "openai_backoff"}

\* C26: inside one invocation of OpenAI's analysis the request in flight is
\* the first, second or third; a failed request is followed by another only
\* when fewer than three have failed; the invocation throws out of the loop
\* only on the failure of the third request; a request that succeeds ends the
\* loop with no further request; an unreadable image throws before any
\* request and the loop is not entered.
C26_AtMostThreeAttempts ==
  [][\A r \in Runs :
       /\ run[r].pc = "openai_wait" => run[r].attempts + 1 \in 1..3
       /\ (run[r].pc = "openai_wait" /\ run'[r].pc = "openai_backoff") =>
             /\ run'[r].attempts = run[r].attempts + 1
             /\ run'[r].attempts < 3
       /\ (run[r].pc = "openai_backoff" /\ run'[r].pc # "openai_backoff") =>
             /\ run'[r].pc = "openai_wait"
             /\ run'[r].attempts = run[r].attempts
       /\ (run[r].pc = "openai_wait" /\ run'[r].pc \notin InRetryLoop) =>
             /\ run'[r].openaiThrew => run[r].attempts + 1 = 3
             /\ ~run'[r].openaiThrew => (run'[r].zeroItems \/ ~run'[r].usingFallbackDiscrepancies)
       /\ (run[r].pc = "openai_access" /\ run'[r].openaiThrew) =>
             run'[r].pc \notin InRetryLoop]_vars

\* the third request of an invocation is in flight after two failures
C26_Witness ==
  \E r \in Runs : run[r].pc = "openai_wait" /\ run[r].attempts = 2

\* C23: every started run eventually has returned a result or has thrown.
C23_RunsTerminate ==
  \A r \in RequestRuns : (run[r].pc # "idle") ~> (Returned(r) \/ Rejected(r))

\* a run has returned through the fallback path after both providers threw
C23_Witness ==
  \E r \in RequestRuns :
    /\ Returned(r)
    /\ run[r].anthropicThrew /\ run[r].openaiThrew
    /\ run[r].usingFallbackDiscrepancies

\* C28: when compareImages has thrown on a rejected storage write, the storage
\* is as it was before the call: no Discrepancy is stored for the run's
\* Comparison, no comparison_run Activity is stored, and the Comparison's
\* lastComparedAt, description and usedFallback are those the run read.
C28_FailureLeavesStorageUnchanged ==
  \A r \in RequestRuns :
    (run[r].pc = "threw" /\ run[r].error = "storage") =>
       LET before == run[r].comparison
           stored == comparisons[before.id]
       IN /\ StoredFor(before.id) = {}
          /\ \A a \in DOMAIN activities : activities[a].type # "comparison_run"
          /\ stored.lastComparedAt = before.lastComparedAt
          /\ stored.description = before.description
          /\ stored.usedFallback = before.usedFallback

\* ------------------------------------------------- the review requests
\* req[s] with the fields of upd replaced
SetReq(s, upd) == [req EXCEPT ![s] = Spread(@, upd)]

\* a request is answered: nothing of the handler is left to run
Respond(s, status) == SetReq(s, [pc |-> "done", status |-> status])

\* Map.delete for every key of a set
DeleteKeys(map, keys) == [k \in DOMAIN map \ keys |-> map[k]]

\* the text of an Activity written by a review route
reviewActivity(wording) == [wording |-> wording, provider |-> "", total |-> 0, count |-> 0]

\* storage.createActivity as called by the review routes
logActivity(projectId, type, wording) ==
  /\ activities' = activities @@ (activityCurrentId :>
       newActivity(activityCurrentId,
         [projectId |-> projectId, type |-> type,
          description |-> reviewActivity(wording), userId |-> Null]))
  /\ activityCurrentId' = activityCurrentId + 1

\* MemStorage.getComments(discrepancyId), as the set of ids
getComments(discrepancyId) ==
  {c \in DOMAIN comments : comments[c].discrepancyId = discrepancyId}

\* MemStorage.createComment
newComment(id, insertComment) ==
  [id |-> id, discrepancyId |-> insertComment.discrepancyId,
   userId |-> insertComment.userId, content |-> insertComment.content]

\* the next request slot is taken in order of arrival
Arrives(s) ==
  /\ req[s].pc = "idle"
  /\ \A q \in RequestIds : q < s => req[q].pc # "idle"

\* POST /api/comparisons/:comparisonId/discrepancies: a discrepancy added by
\* hand to a stored Comparison (Comparisons are never deleted, the handler's
\* check cannot go stale)
PostDiscrepancy(comparisonId) ==
  /\ comparisonId \in DOMAIN comparisons
  /\ discrepancyCurrentId <= MaxDiscrepancies
  /\ discrepancies' = discrepancies @@ (discrepancyCurrentId :>
       newDiscrepancy(discrepancyCurrentId,
                      insertFor(comparisonId, selectFields(<< RawButton >>)[1])))
  /\ discrepancyCurrentId' = discrepancyCurrentId + 1
  /\ logActivity(comparisons[comparisonId].projectId, "discrepancy_added", "added")
  /\ UNCHANGED << AI_PROVIDER, ANTHROPIC_API_STATUS, comparisons, comparisonCurrentId,
                  clock, run, reviewVars >>

\* POST /api/discrepancies/:discrepancyId/comments arrives: getDiscrepancy
PostComment(s, discrepancyId, userId) ==
  /\ Arrives(s)
  /\ req' = SetReq(s, [pc |-> "c_discrepancy", kind |-> "comment",
                       discrepancyId |-> discrepancyId, userId |-> userId,
                       found |-> discrepancyId \in DOMAIN discrepancies,
                       comparisonId |-> IF discrepancyId \in DOMAIN discrepancies
                                          THEN discrepancies[discrepancyId].comparisonId
                                          ELSE 0])
  /\ UNCHANGED << AI_PROVIDER, ANTHROPIC_API_STATUS, storageVars, clock, run,
                  comments, commentCurrentId, projects, projectCollaborators >>

\* lines 754-761: 404 when the discrepancy was not found, 400 when the body
\* does not validate, otherwise createComment
CommentCreate(s, valid) ==
  /\ req[s].pc = "c_discrepancy"
  /\ IF ~req[s].found
       THEN /\ valid
            /\ req' = Respond(s, 404)
            /\ UNCHANGED << comments, commentCurrentId >>
       ELSE IF ~valid
       THEN /\ req' = Respond(s, 400)
            /\ UNCHANGED << comments, commentCurrentId >>
       ELSE /\ comments' = comments @@ (commentCurrentId :>
                 newComment(commentCurrentId,
                   [discrepancyId |-> req[s].discrepancyId, userId |-> req[s].userId,
                    content |-> "comment"]))
            /\ commentCurrentId' = commentCurrentId + 1
            /\ req' = SetReq(s, [pc |-> "c_created"])
  /\ UNCHANGED << AI_PROVIDER, ANTHROPIC_API_STATUS, storageVars, clock, run,
                  projects, projectCollaborators >>

\* lines 763-772: getComparison; createActivity when it is stored
CommentLog(s) ==
  /\ req[s].pc = "c_created"
  /\ req' = SetReq(s, [pc |-> "c_logged"])
  /\ IF req[s].comparisonId \in DOMAIN comparisons
       THEN logActivity(comparisons[req[s].comparisonId].projectId,
                        "comment_added", "comment")
       ELSE UNCHANGED << activities, activityCurrentId >>
  /\ UNCHANGED << AI_PROVIDER, ANTHROPIC_API_STATUS, comparisons, comparisonCurrentId,
                  discrepancies, discrepancyCurrentId, clock, run,
                  comments, commentCurrentId, projects, projectCollaborators >>

\* line 774: 201 with the comment
CommentRespond(s) ==
  /\ req[s].pc = "c_logged"
  /\ req' = Respond(s, 201)
  /\ UNCHANGED << AI_PROVIDER, ANTHROPIC_API_STATUS, storageVars, clock, run,
                  comments, commentCurrentId, projects, projectCollaborators >>

\* DELETE /api/discrepancies/:id arrives: getDiscrepancy
DeleteDiscrepancy(s, discrepancyId) ==
  /\ Arrives(s)
  /\ req' = SetReq(s, [pc |-> "d_discrepancy", kind |-> "delete",
                       discrepancyId |-> discrepancyId,
                       found |-> discrepancyId \in DOMAIN discrepancies,
                       comparisonId |-> IF discrepancyId \in DOMAIN discrepancies
                                          THEN discrepancies[discrepancyId].comparisonId
                                          ELSE 0])
  /\ UNCHANGED << AI_PROVIDER, ANTHROPIC_API_STATUS, storageVars, clock, run,
                  comments, commentCurrentId, projects, projectCollaborators >>

\* lines 706-714 and MemStorage.deleteDiscrepancy up to its await: 404 when the
\* handler found nothing; deleteDiscrepancy returns false when the discrepancy
\* is gone, otherwise it has read the comments to delete
DeleteStart(s) ==
  /\ req[s].pc = "d_discrepancy"
  /\ req' = IF ~req[s].found
              THEN Respond(s, 404)
            ELSE IF req[s].discrepancyId \notin DOMAIN discrepancies
              THEN SetReq(s, [pc |-> "d_deleted", deleted |-> FALSE])
            ELSE SetReq(s, [pc |-> "d_comments",
                            discrepancyComments |-> getComments(req[s].discrepancyId)])
  /\ UNCHANGED << AI_PROVIDER, ANTHROPIC_API_STATUS, storageVars, clock, run,
                  comments, commentCurrentId, projects, projectCollaborators >>

\* MemStorage.deleteDiscrepancy after its await: the comments read are
\* deleted, then the discrepancy
DeleteFinish(s) ==
  /\ req[s].pc = "d_comments"
  /\ comments' = DeleteKeys(comments, req[s].discrepancyComments)
  /\ discrepancies' = DeleteKeys(discrepancies, {req[s].discrepancyId})
  /\ req' = SetReq(s, [pc |-> "d_deleted",
                       deleted |-> req[s].discrepancyId \in DOMAIN discrepancies])
  /\ UNCHANGED << AI_PROVIDER, ANTHROPIC_API_STATUS, comparisons, comparisonCurrentId,
                  discrepancyCurrentId, activities, activityCurrentId, clock, run,
                  commentCurrentId, projects, projectCollaborators >>

\* lines 716-730: 500 when nothing was deleted, otherwise getComparison and
\* createActivity when it is stored
DeleteLog(s) ==
  /\ req[s].pc = "d_deleted"
  /\ IF ~req[s].deleted
       THEN /\ req' = Respond(s, 500)
            /\ UNCHANGED << activities, activityCurrentId >>
       ELSE /\ req' = SetReq(s, [pc |-> "d_logged"])
            /\ IF req[s].comparisonId \in DOMAIN comparisons
                 THEN logActivity(comparisons[req[s].comparisonId].projectId,
                                  "discrepancy_updated", "deleted")
                 ELSE UNCHANGED << activities, activityCurrentId >>
  /\ UNCHANGED << AI_PROVIDER, ANTHROPIC_API_STATUS, comparisons, comparisonCurrentId,
                  discrepancies, discrepancyCurrentId, clock, run,
                  comments, commentCurrentId, projects, projectCollaborators >>

\* line 732: 204
DeleteRespond(s) ==
  /\ req[s].pc = "d_logged"
  /\ req' = Respond(s, 204)
  /\ UNCHANGED << AI_PROVIDER, ANTHROPIC_API_STATUS, storageVars, clock, run,
                  comments, commentCurrentId, projects, projectCollaborators >>

\* discrepancies added by hand, commented on and deleted (MemStorage)
CommentNext ==
  \/ \E st \in {"processing"} : CreateComparison(st)
  \/ \E id \in 1..MaxComparisons : PostDiscrepancy(id)
  \/ \E s \in RequestIds, d \in 1..MaxDiscrepancies, u \in {1} : PostComment(s, d, u)
  \/ \E s \in RequestIds, valid \in BOOLEAN : CommentCreate(s, valid)
  \/ \E s \in RequestIds : CommentLog(s)
  \/ \E s \in RequestIds : CommentRespond(s)
  \/ \E s \in RequestIds, d \in 1..MaxDiscrepancies : DeleteDiscrepancy(s, d)
  \/ \E s \in RequestIds : DeleteStart(s)
  \/ \E s \in RequestIds : DeleteFinish(s)
  \/ \E s \in RequestIds : DeleteLog(s)
  \/ \E s \in RequestIds : DeleteRespond(s)

CommentSpec == Init /\ [][CommentNext]_vars

\* every request has been answered
Quiescent == \A s \in RequestIds : req[s].pc \in {"idle", "done"}

\* the stored comments whose discrepancy is not stored
Orphans == {c \in DOMAIN comments : comments[c].discrepancyId \notin DOMAIN discrepancies}

\* C29: once every add-comment and delete-discrepancy request has been
\* answered, every stored Comment refers to a stored Discrepancy.
C29_NoOrphanComments == Quiescent => Orphans = {}

\* ------------------------------------------------ the collaborator routes
\* the project ids and user ids a request may name: stored ones and one that
\* is not stored
RequestedProjects == {1, 2}
RequestedUsers == UserIds \cup {4}

\* POST /api/projects/:projectId/collaborators arrives: 401 without a session,
\* otherwise getProject
PostCollaborator(s, authenticated, projectId, userId) ==
  /\ Arrives(s)
  /\ req' = IF ~authenticated
              THEN SetReq(s, [pc |-> "done", kind |-> "add", status |-> 401])
              ELSE SetReq(s, [pc |-> "a_project", kind |-> "add",
                              projectId |-> projectId, userId |-> userId,
                              found |-> projectId \in DOMAIN projects])
  /\ UNCHANGED << AI_PROVIDER, ANTHROPIC_API_STATUS, storageVars, clock, run,
                  comments, commentCurrentId, projects, projectCollaborators >>

\* lines 951-956: 404 without the project, otherwise getUser
AddCheckUser(s) ==
  /\ req[s].pc = "a_project"
  /\ req' = IF ~req[s].found
              THEN Respond(s, 404)
              ELSE SetReq(s, [pc |-> "a_user", found |-> req[s].userId \in UserIds])
  /\ UNCHANGED << AI_PROVIDER, ANTHROPIC_API_STATUS, storageVars, clock, run,
                  comments, commentCurrentId, projects, projectCollaborators >>

\* lines 958-962: 404 without the user, otherwise getProjectCollaborator
AddCheckExisting(s) ==
  /\ req[s].pc = "a_user"
  /\ req' = IF ~req[s].found
              THEN Respond(s, 404)
              ELSE SetReq(s, [pc |-> "a_existing",
                              found |-> Key(req[s].projectId, req[s].userId)
                                          \in DOMAIN projectCollaborators])
  /\ UNCHANGED << AI_PROVIDER, ANTHROPIC_API_STATUS, storageVars, clock, run,
                  comments, commentCurrentId, projects, projectCollaborators >>

\* MemStorage.addProjectCollaborator: the record is set under its key and the
\* project's counter is incremented
addProjectCollaborator(collaborator) ==
  /\ projectCollaborators' =
       [k \in DOMAIN projectCollaborators \cup {Key(collaborator.projectId, collaborator.userId)} |->
          IF k = Key(collaborator.projectId, collaborator.userId)
            THEN collaborator ELSE projectCollaborators[k]]
  /\ projects' =
       IF collaborator.projectId \in DOMAIN projects
         THEN [projects EXCEPT ![collaborator.projectId].collaborators = @ + 1]
         ELSE projects

\* lines 964-973: 409 when the record was found, otherwise addProjectCollaborator
AddCollaborator(s) ==
  /\ req[s].pc = "a_existing"
  /\ IF req[s].found
       THEN /\ req' = Respond(s, 409)
            /\ UNCHANGED << projects, projectCollaborators >>
       ELSE /\ req' = SetReq(s, [pc |-> "a_added"])
            /\ addProjectCollaborator([projectId |-> req[s].projectId,
                                       userId |-> req[s].userId, role |-> "developer"])
  /\ UNCHANGED << AI_PROVIDER, ANTHROPIC_API_STATUS, storageVars, clock, run,
                  comments, commentCurrentId >>

\* lines 975-983: createActivity, then 201
AddLog(s) ==
  /\ req[s].pc = "a_added"
  /\ req' = SetReq(s, [pc |-> "a_logged"])
  /\ logActivity(req[s].projectId, "collaborator_added", "added")
  /\ UNCHANGED << AI_PROVIDER, ANTHROPIC_API_STATUS, comparisons, comparisonCurrentId,
                  discrepancies, discrepancyCurrentId, clock, run,
                  comments, commentCurrentId, projects, projectCollaborators >>

AddRespond(s) ==
  /\ req[s].pc = "a_logged"
  /\ req' = Respond(s, 201)
  /\ UNCHANGED << AI_PROVIDER, ANTHROPIC_API_STATUS, storageVars, clock, run,
                  comments, commentCurrentId, projects, projectCollaborators >>

\* DELETE /api/projects/:projectId/collaborators/:userId arrives: 401 without
\* a session, otherwise getProjectCollaborator
DeleteCollaborator(s, authenticated, projectId, userId) ==
  /\ Arrives(s)
  /\ req' = IF ~authenticated
              THEN SetReq(s, [pc |-> "done", kind |-> "remove", status |-> 401])
              ELSE SetReq(s, [pc |-> "r_existing", kind |-> "remove",
                              projectId |-> projectId, userId |-> userId,
                              found |-> Key(projectId, userId) \in DOMAIN projectCollaborators])
  /\ UNCHANGED << AI_PROVIDER, ANTHROPIC_API_STATUS, storageVars, clock, run,
                  comments, commentCurrentId, projects, projectCollaborators >>

\* MemStorage.removeProjectCollaborator on a stored record: the record is
\* deleted and the counter decremented, not below zero
removeProjectCollaborator(projectId, userId) ==
  /\ projectCollaborators' = DeleteKeys(projectCollaborators, {Key(projectId, userId)})
  /\ projects' =
       IF projectId \in DOMAIN projects
         THEN [projects EXCEPT ![projectId].collaborators = IF @ - 1 > 0 THEN @ - 1 ELSE 0]
         ELSE projects

\* lines 1000-1005: 404 when no record was found, otherwise
\* removeProjectCollaborator, which returns false when the record is gone
RemoveCollaborator(s) ==
  /\ req[s].pc = "r_existing"
  /\ IF ~req[s].found
       THEN /\ req' = Respond(s, 404)
            /\ UNCHANGED << projects, projectCollaborators >>
       ELSE IF Key(req[s].projectId, req[s].userId) \notin DOMAIN projectCollaborators
       THEN /\ req' = SetReq(s, [pc |-> "r_removed", deleted |-> FALSE])
            /\ UNCHANGED << projects, projectCollaborators >>
       ELSE /\ req' = SetReq(s, [pc |-> "r_removed", deleted |-> TRUE])
            /\ removeProjectCollaborator(req[s].projectId, req[s].userId)
  /\ UNCHANGED << AI_PROVIDER, ANTHROPIC_API_STATUS, storageVars, clock, run,
                  comments, commentCurrentId >>

\* lines 1007-1009 and 1021-1023: 500 when nothing was removed, otherwise getUser
RemoveGetUser(s) ==
  /\ req[s].pc = "r_removed"
  /\ req' = IF req[s].deleted THEN SetReq(s, [pc |-> "r_user"]) ELSE Respond(s, 500)
  /\ UNCHANGED << AI_PROVIDER, ANTHROPIC_API_STATUS, storageVars, clock, run,
                  comments, commentCurrentId, projects, projectCollaborators >>

\* lines 1011-1017: createActivity
RemoveLog(s) ==
  /\ req[s].pc = "r_user"
  /\ req' = SetReq(s, [pc |-> "r_logged"])
  /\ logActivity(req[s].projectId, "collaborator_removed", "removed")
  /\ UNCHANGED << AI_PROVIDER, ANTHROPIC_API_STATUS, comparisons, comparisonCurrentId,
                  discrepancies, discrepancyCurrentId, clock, run,
                  comments, commentCurrentId, projects, projectCollaborators >>

\* line 1019: 204
RemoveRespond(s) ==
  /\ req[s].pc = "r_logged"
  /\ req' = Respond(s, 204)
  /\ UNCHANGED << AI_PROVIDER, ANTHROPIC_API_STATUS, storageVars, clock, run,
                  comments, commentCurrentId, projects, projectCollaborators >>

\* collaborators added to and removed from projects (MemStorage)
CollaboratorNext ==
  \/ \E s \in RequestIds, a \in BOOLEAN, p \in RequestedProjects, u \in RequestedUsers :
       PostCollaborator(s, a, p, u)
  \/ \E s \in RequestIds : AddCheckUser(s)
  \/ \E s \in RequestIds : AddCheckExisting(s)
  \/ \E s \in RequestIds : AddCollaborator(s)
  \/ \E s \in RequestIds : AddLog(s)
  \/ \E s \in RequestIds : AddRespond(s)
  \/ \E s \in RequestIds, a \in BOOLEAN, p \in RequestedProjects, u \in RequestedUsers :
       DeleteCollaborator(s, a, p, u)
  \/ \E s \in RequestIds : RemoveCollaborator(s)
  \/ \E s \in RequestIds : RemoveGetUser(s)
  \/ \E s \in RequestIds : RemoveLog(s)
  \/ \E s \in RequestIds : RemoveRespond(s)

CollaboratorSpec == Init /\ [][CollaboratorNext]_vars

\* the collaborator records stored for a project
RecordsOf(projectId) == {k \in DOMAIN projectCollaborators : k[1] = projectId}

\* C30: each stored project's collaborators counter equals the number of
\* collaborator records stored for it, and is not negative.
C30_CounterMatchesRecords ==
  \A p \in DOMAIN projects :
    /\ projects[p].collaborators = Cardinality(RecordsOf(p))
    /\ projects[p].collaborators >= 0

====
